---- MODULE Spec2Model ----
(***************************************************************************)
(* tor-stream: TorStream, a TcpStream tunnelled through a SOCKS5 (Tor)     *)
(* proxy (src/src/lib.rs), and the connectivity check binary               *)
(* (src/src/bin/check.rs).                                                 *)
(*                                                                         *)
(* The SOCKS5 wire protocol is run by the external `socks` crate and the   *)
(* sockets are std::net::TcpStream; both are the environment of the        *)
(* library.  They are modelled step by step (TCP open, method              *)
(* negotiation, CONNECT request, reply) so that the states in which a      *)
(* handshake is in progress exist in the model.                            *)
(***************************************************************************)
EXTENDS Integers, Sequences, FiniteSets, TLC

VARIABLES
    engineEncodesFirst, \* whether the engine converts the destination before it opens the socket
    torProxyCell,       \* the lazy_static cell behind TOR_PROXY: <<>> until first use
    call,               \* the connect call in progress (NoCall when the caller is idle)
    ncalls,             \* calls made so far
    sockets,            \* every TCP socket ever opened, by id
    io,                 \* per socket: what was accepted from / sent by / delivered to the caller
    streams,            \* socket ids the caller holds wrapped in a TorStream
    raws,               \* socket ids the caller holds as a bare TcpStream (after unwrap)
    ret,                \* what the last connect call returned to the caller
    log,                \* the completed connect calls
    lastOp,             \* the last read / write / flush / unwrap the caller performed
    h                   \* the check binary: its inputs, position, output and exit code

vars == <<engineEncodesFirst, torProxyCell, call, ncalls, sockets, io, streams,
          raws, ret, log, lastOp, h>>

-----------------------------------------------------------------------------
(* Bounds *)

MaxCalls == 2
MaxIoCalls == 1
MaxData == 2

-----------------------------------------------------------------------------
(* Addresses and destinations *)

SocketAddrV4_new(ip, port) == [ip |-> ip, port |-> port]

Ipv4Addr_LOCALHOST == <<127, 0, 0, 1>>

TOR_PROXY_9150 == SocketAddrV4_new(Ipv4Addr_LOCALHOST, 9150)

\* lazy_static! { pub static ref TOR_PROXY: SocketAddr = ... }
TOR_PROXY == SocketAddrV4_new(Ipv4Addr_LOCALHOST, 9050)

ProxyAddrs == {SocketAddrV4_new(Ipv4Addr_LOCALHOST, 9050),
               SocketAddrV4_new(Ipv4Addr_LOCALHOST, 9150)}

a1 == "a"
a2 == a1 \o a1
a4 == a2 \o a2
a8 == a4 \o a4
a16 == a8 \o a8
a32 == a16 \o a16
a64 == a32 \o a32
a128 == a64 \o a64
Host256 == a128 \o a128

NoIp == <<>>

IpDest(ip, port) == [kind |-> "ip", ip |-> ip, host |-> "", port |-> port]
HostDest(host, port) == [kind |-> "host", ip |-> NoIp, host |-> host, port |-> port]

\* The destinations callers pass: an (IP, port) pair and (hostname, port) pairs.
Destinations ==
    { IpDest(<<93, 184, 216, 34>>, 80),
      HostDest("wlupld3ptjvsgwqw.onion", 80),
      HostDest(Host256, 80) }


-----------------------------------------------------------------------------
(* io::Result values *)

NoErr == [kind |-> "", msg |-> ""]
IoError(kind, msg) == [kind |-> kind, msg |-> msg]

Ok(sock) == [ok |-> TRUE, sock |-> sock, err |-> NoErr]
Err(e) == [ok |-> FALSE, sock |-> 0, err |-> e]
NoResult == [ok |-> FALSE, sock |-> 0, err |-> NoErr]

-----------------------------------------------------------------------------
(* The environment: the proxy, the transport and the SOCKS5 engine *)

\* What the proxy at the called address does during one handshake.
Behaviours == {"refuse", "reset", "fail_reply", "garbage_reply", "ok"}

MaxDomainLen == 255

TooLong(target) == target.kind = "host" /\ Len(target.host) > MaxDomainLen

\* The greeting: version 5, one method, "no authentication".
Socks5Greeting == [msg |-> "greeting", ver |-> 5, methods |-> <<0>>]

\* The CONNECT request: an IP target goes out as an address (ATYP 1), any
\* other host as a domain name (ATYP 3): length byte, the name, the port.
Socks5Request(target) ==
    IF target.kind = "ip"
    THEN [msg |-> "connect", ver |-> 5, cmd |-> 1, atyp |-> 1, len |-> 4,
          ip |-> target.ip, host |-> "", port |-> target.port]
    ELSE [msg |-> "connect", ver |-> 5, cmd |-> 1, atyp |-> 3, len |-> Len(target.host),
          ip |-> NoIp, host |-> target.host, port |-> target.port]

MethodReply == [msg |-> "method", ver |-> 5, method |-> 0]

ConnectReply(beh) ==
    [msg |-> "reply",
     ver |-> IF beh = "garbage_reply" THEN 0 ELSE 5,
     rep |-> IF beh = "fail_reply" THEN 1 ELSE 0]

NewSocket(peer) ==
    [peer |-> peer, hs |-> "tcp", open |-> TRUE, broken |-> FALSE,
     out |-> <<>>, inbuf |-> <<>>]

NewIo == [accepted |-> <<>>, peerSent |-> <<>>, delivered |-> <<>>]

IdleCall ==
    [api |-> "", proxy |-> SocketAddrV4_new(<<>>, 0), dest |-> IpDest(NoIp, 0),
     target |-> IpDest(NoIp, 0), beh |-> "", phase |-> "idle", encoded |-> FALSE,
     sock |-> 0, trace |-> <<>>, result |-> NoResult]

\* Socks5Stream::connect(proxy, target) has been entered.
EngineCall(api, proxy, target, dest, beh) ==
    [api |-> api, proxy |-> proxy, dest |-> dest, target |-> target, beh |-> beh,
     phase |-> "start", encoded |-> FALSE, sock |-> 0, trace |-> <<>>,
     result |-> NoResult]

\* The engine gives up: its socket, if it has one, is dropped (closed).
EngineFail(e) ==
    /\ call' = [call EXCEPT !.phase = "finished", !.result = Err(e)]
    /\ sockets' = IF call.sock = 0 THEN sockets
                  ELSE [sockets EXCEPT ![call.sock].open = FALSE,
                                       ![call.sock].hs = "failed"]

Traced(c, ev) == [c EXCEPT !.trace = Append(@, ev)]

\* target.to_target_addr(): a host that does not fit the length byte is refused.
EngineToTargetAddr ==
    /\ call.phase = (IF engineEncodesFirst THEN "start" ELSE "negotiated")
    /\ ~call.encoded
    /\ IF TooLong(call.target)
       THEN EngineFail(IoError("InvalidInput", "domain name too long"))
       ELSE /\ call' = [call EXCEPT !.encoded = TRUE]
            /\ UNCHANGED sockets
    /\ UNCHANGED <<engineEncodesFirst, torProxyCell, ncalls, io, streams, raws, ret,
                   log, lastOp, h>>

\* TcpStream::connect(proxy)
EngineTcpConnect ==
    /\ call.phase = "start"
    /\ engineEncodesFirst => call.encoded
    /\ IF call.beh = "refuse"
       THEN /\ call' = [Traced(call, <<"tcp_connect", call.proxy>>) EXCEPT
                           !.phase = "finished",
                           !.result = Err(IoError("ConnectionRefused", "os error 111"))]
            /\ UNCHANGED <<sockets, io>>
       ELSE /\ sockets' = Append(sockets, NewSocket(call.proxy))
            /\ io' = Append(io, NewIo)
            /\ call' = [Traced(call, <<"tcp_connect", call.proxy>>) EXCEPT
                           !.phase = "connected", !.sock = Len(sockets) + 1]
    /\ UNCHANGED <<engineEncodesFirst, torProxyCell, ncalls, streams, raws, ret, log,
                   lastOp, h>>

\* The greeting is written and the proxy's method selection read.
EngineNegotiate ==
    /\ call.phase = "connected"
    /\ LET sent == Traced(call, <<"send", Socks5Greeting>>)
           got == Traced(sent, <<"recv", MethodReply>>)
       IN  IF call.beh = "reset"
           THEN /\ call' = [sent EXCEPT !.phase = "finished",
                               !.result = Err(IoError("ConnectionReset", "os error 104"))]
                /\ sockets' = [sockets EXCEPT ![call.sock].open = FALSE,
                                              ![call.sock].hs = "failed"]
           ELSE /\ call' = [got EXCEPT !.phase = "negotiated"]
                /\ sockets' = [sockets EXCEPT ![call.sock].hs = "negotiated"]
    /\ UNCHANGED <<engineEncodesFirst, torProxyCell, ncalls, io, streams, raws, ret,
                   log, lastOp, h>>

\* The CONNECT request is written.
EngineRequest ==
    /\ call.phase = "negotiated"
    /\ call.encoded
    /\ call' = [Traced(call, <<"send", Socks5Request(call.target)>>) EXCEPT
                   !.phase = "requested"]
    /\ sockets' = [sockets EXCEPT ![call.sock].hs = "requested"]
    /\ UNCHANGED <<engineEncodesFirst, torProxyCell, ncalls, io, streams, raws, ret,
                   log, lastOp, h>>

\* The reply is read and validated; on success the engine returns its socket.
EngineReply ==
    /\ call.phase = "requested"
    /\ LET rep == ConnectReply(call.beh)
           got == Traced(call, <<"recv", rep>>)
       IN  IF rep.ver # 5
           THEN /\ call' = [got EXCEPT !.phase = "finished",
                               !.result = Err(IoError("InvalidData", "invalid response version"))]
                /\ sockets' = [sockets EXCEPT ![call.sock].open = FALSE,
                                              ![call.sock].hs = "failed"]
           ELSE IF rep.rep # 0
           THEN /\ call' = [got EXCEPT !.phase = "finished",
                               !.result = Err(IoError("Other", "general SOCKS server failure"))]
                /\ sockets' = [sockets EXCEPT ![call.sock].open = FALSE,
                                              ![call.sock].hs = "failed"]
           ELSE /\ call' = [got EXCEPT !.phase = "finished", !.result = Ok(call.sock)]
                /\ sockets' = [sockets EXCEPT ![call.sock].hs = "established"]
    /\ UNCHANGED <<engineEncodesFirst, torProxyCell, ncalls, io, streams, raws, ret,
                   log, lastOp, h>>

NoSocket == NewSocket(SocketAddrV4_new(<<>>, 0))

\* io::Result<usize> of a read, write or flush, with the bytes a read delivered.
IoOk(n, data) == [ok |-> TRUE, n |-> n, data |-> data, err |-> NoErr]
IoErr(e) == [ok |-> FALSE, n |-> 0, data |-> <<>>, err |-> e]

Outcome(s, r) == [sock |-> s, result |-> r]

Min(a, b) == IF a < b THEN a ELSE b

SocketError(s) ==
    IF ~s.open THEN IoError("NotConnected", "os error 107")
    ELSE IoError("ConnectionReset", "os error 104")

\* <TcpStream as Read>::read on a buffer of n bytes: the outcomes the transport
\* allows.  With nothing to deliver and no error the call blocks (no outcome).
TcpStream_read(s, n) ==
    IF ~s.open THEN {Outcome(s, IoErr(SocketError(s)))}
    ELSE IF s.inbuf # <<>>
    THEN LET k == Min(n, Len(s.inbuf))
         IN  {Outcome([s EXCEPT !.inbuf = SubSeq(@, k + 1, Len(@))],
                      IoOk(k, SubSeq(s.inbuf, 1, k)))}
    ELSE IF s.broken THEN {Outcome(s, IoErr(SocketError(s)))}
    ELSE {}

\* <TcpStream as Write>::write: any non-empty prefix of buf may be accepted.
TcpStream_write(s, buf) ==
    IF ~s.open \/ s.broken THEN {Outcome(s, IoErr(SocketError(s)))}
    ELSE {Outcome([s EXCEPT !.out = @ \o SubSeq(buf, 1, k)], IoOk(k, <<>>)) :
             k \in 1..Len(buf)}

\* <TcpStream as Write>::flush: nothing is buffered, nothing happens.
TcpStream_flush(s) == {Outcome(s, IoOk(0, <<>>))}

-----------------------------------------------------------------------------
(* TorStream: connecting *)

\* pub struct TorStream(TcpStream): the wrapper is its socket.
TorStream(sock) == sock

\* TOR_PROXY.deref(): the cell is initialised on first use.
Deref(cell) == IF cell = <<>> THEN <<TOR_PROXY>> ELSE cell

\* to_socket_addrs() on a destination: what resolving it locally would give.
LocalResolve(destination) ==
    IF destination.kind = "ip" THEN destination
    ELSE IpDest(<<10, 0, 0, Len(destination.host) % 256>>, destination.port)

\* connect_with_address resolving the destination itself before the engine sees it
connect_with_address_args_resolved(tor_proxy, destination) ==
    <<tor_proxy, LocalResolve(destination)>>

\* connect replacing the engine's error by one of its own
connect_map_reinterpreted(c) ==
    IF c.result.ok THEN Ok(TorStream(c.result.sock))
    ELSE Err(IoError("Other", "could not connect over Tor"))

\* connect_with_address wrapping whatever socket was opened, whatever the result
connect_with_address_map_unchecked(c) ==
    IF c.sock # 0 THEN Ok(TorStream(c.sock)) ELSE c.result

\* connect_with_address flattening every error into a generic failure kind
connect_with_address_map_generic(c) ==
    IF c.result.ok THEN Ok(TorStream(c.result.sock))
    ELSE Err(IoError("Other", c.result.err.msg))

\* connect_with_address handing out an already open tunnel
connect_with_address_map_pooled(c) ==
    IF c.result.ok THEN Ok(TorStream(1)) ELSE c.result

\* connect: what is handed to Socks5Stream::connect.
connect_args(destination) == <<Head(Deref(torProxyCell)), destination>>

\* connect_with_address: what is handed to Socks5Stream::connect.
connect_with_address_args(tor_proxy, destination) == <<tor_proxy, destination>>

\* connect: .map(|stream| TorStream(stream.into_inner())) on the engine's result.
connect_map(c) ==
    IF c.result.ok THEN Ok(TorStream(c.result.sock)) ELSE c.result

\* connect_with_address: the same map on the engine's result.
connect_with_address_map(c) ==
    IF c.result.ok THEN Ok(TorStream(c.result.sock)) ELSE c.result

\* TorStream::connect(destination) is called.
Connect(limit, dests, behs) ==
    /\ call.phase = "idle"
    /\ ncalls < limit
    /\ \E destination \in dests, beh \in behs :
          LET args == connect_args(destination)
          IN  call' = EngineCall("connect", args[1], args[2], destination, beh)
    /\ torProxyCell' = Deref(torProxyCell)
    /\ ncalls' = ncalls + 1
    /\ UNCHANGED <<engineEncodesFirst, sockets, io, streams, raws, ret, log, lastOp, h>>

\* TorStream::connect_with_address(tor_proxy, destination) is called.
ConnectWithAddress(limit, proxies, dests, behs) ==
    /\ call.phase = "idle"
    /\ ncalls < limit
    /\ \E tor_proxy \in proxies, destination \in dests, beh \in behs :
          LET args == connect_with_address_args(tor_proxy, destination)
          IN  call' = EngineCall("connect_with_address", args[1], args[2], destination, beh)
    /\ ncalls' = ncalls + 1
    /\ UNCHANGED <<engineEncodesFirst, torProxyCell, sockets, io, streams, raws, ret,
                   log, lastOp, h>>

connect == Connect(MaxCalls, Destinations, Behaviours)

connect_with_address == ConnectWithAddress(MaxCalls, ProxyAddrs, Destinations, Behaviours)

LogEntry(c, r) ==
    [api |-> c.api, proxy |-> c.proxy, dest |-> c.dest, beh |-> c.beh,
     trace |-> c.trace, sock |-> c.sock, engine |-> c.result, ret |-> r]

\* The call returns: io::Result<TorStream> reaches the caller.
Return ==
    /\ call.phase = "finished"
    /\ LET r == IF call.api = "connect" THEN connect_map(call)
                ELSE connect_with_address_map(call)
       IN  /\ ret' = r
           /\ streams' = IF r.ok THEN streams \cup {r.sock} ELSE streams
           /\ log' = Append(log, LogEntry(call, r))
    /\ call' = IdleCall
    /\ UNCHANGED <<engineEncodesFirst, torProxyCell, ncalls, sockets, io, raws, lastOp, h>>

-----------------------------------------------------------------------------
(* TorStream: the stream facade *)

\* write through a buffer of the wrapper's own: all of buf is taken, nothing is sent
TorStream_write_buffered(s, buf) ==
    IF ~s.open \/ s.broken THEN {Outcome(s, IoErr(SocketError(s)))}
    ELSE {Outcome(s, IoOk(Len(buf), <<>>))}

\* unwrap shutting the socket down before handing it over
TorStream_unwrap_shutdown(s) == [s EXCEPT !.open = FALSE]

\* impl Read for TorStream: self.0.read(buf)
TorStream_read(s, n) == TcpStream_read(s, n)

\* impl Write for TorStream: self.0.write(buf)
TorStream_write(s, buf) == TcpStream_write(s, buf)

\* impl Write for TorStream: self.0.flush()
TorStream_flush(s) == TcpStream_flush(s)

\* TorStream::unwrap: self.0
TorStream_unwrap(s) == s

NoOp ==
    [via |-> "", op |-> "", sock |-> 0, n |-> 0, buf |-> <<>>, before |-> NoSocket,
     after |-> NoSocket, result |-> IoErr(NoErr)]

Op(via, op, id, n, buf, o) ==
    [via |-> via, op |-> op, sock |-> id, n |-> n, buf |-> buf,
     before |-> sockets[id], after |-> o.sock, result |-> o.result]

\* The buffers callers write and read into, and what the peer sends.
WriteBufs == {<<1>>, <<2, 3>>}
ReadLens == {1, 2}
PeerBufs == {<<7>>, <<8, 9>>}

RECURSIVE SumLen(_, _)
SumLen(f, i) ==
    IF i = 0 THEN 0 ELSE Len(f[i].accepted) + Len(f[i].peerSent) + SumLen(f, i - 1)

\* Bytes that have crossed any tunnel so far, in either direction.
TotalBytes == SumLen(io, Len(io))

Applied(via, op, id, n, buf, o) ==
    /\ sockets' = [sockets EXCEPT ![id] = o.sock]
    /\ io' = [io EXCEPT ![id].accepted = IF op = "write" /\ o.result.ok
                                            THEN @ \o SubSeq(buf, 1, o.result.n) ELSE @,
                           ![id].delivered = @ \o o.result.data]
    /\ lastOp' = Op(via, op, id, n, buf, o)
    /\ UNCHANGED <<engineEncodesFirst, torProxyCell, call, ncalls, streams, raws, ret,
                   log, h>>

\* stream.read(&mut buf) on a TorStream
Read ==
    /\ call.phase = "idle"
    /\ \E id \in streams, n \in ReadLens :
          \E o \in TorStream_read(sockets[id], n) :
             Applied("TorStream", "read", id, n, <<>>, o)

\* stream.write(buf) on a TorStream
Write ==
    /\ call.phase = "idle"
    /\ \E id \in streams, buf \in WriteBufs :
          /\ TotalBytes + Len(buf) <= MaxData
          /\ \E o \in TorStream_write(sockets[id], buf) :
                Applied("TorStream", "write", id, 0, buf, o)

\* stream.flush() on a TorStream
Flush ==
    /\ call.phase = "idle"
    /\ lastOp.op # "flush"
    /\ \E id \in streams :
          \E o \in TorStream_flush(sockets[id]) :
             Applied("TorStream", "flush", id, 0, <<>>, o)

\* stream.unwrap(): the TorStream is consumed, the caller holds the TcpStream.
Unwrap ==
    /\ call.phase = "idle"
    /\ \E id \in streams :
          LET o == Outcome(TorStream_unwrap(sockets[id]), IoOk(0, <<>>))
          IN  /\ sockets' = [sockets EXCEPT ![id] = o.sock]
              /\ streams' = streams \ {id}
              /\ raws' = raws \cup {id}
              /\ lastOp' = Op("TorStream", "unwrap", id, 0, <<>>, o)
    /\ UNCHANGED <<engineEncodesFirst, torProxyCell, call, ncalls, io, ret, log, h>>

\* read on the TcpStream obtained from unwrap
RawRead ==
    /\ call.phase = "idle"
    /\ \E id \in raws, n \in ReadLens :
          \E o \in TcpStream_read(sockets[id], n) :
             Applied("TcpStream", "read", id, n, <<>>, o)

\* write on the TcpStream obtained from unwrap
RawWrite ==
    /\ call.phase = "idle"
    /\ \E id \in raws, buf \in WriteBufs :
          /\ TotalBytes + Len(buf) <= MaxData
          /\ \E o \in TcpStream_write(sockets[id], buf) :
                Applied("TcpStream", "write", id, 0, buf, o)

\* The far end sends bytes through the tunnel.
PeerSend ==
    /\ \E id \in streams \cup raws, buf \in PeerBufs :
          /\ sockets[id].open /\ ~sockets[id].broken
          /\ TotalBytes + Len(buf) <= MaxData
          /\ sockets' = [sockets EXCEPT ![id].inbuf = @ \o buf]
          /\ io' = [io EXCEPT ![id].peerSent = @ \o buf]
    /\ UNCHANGED <<engineEncodesFirst, torProxyCell, call, ncalls, streams, raws, ret,
                   log, lastOp, h>>

\* The tunnel breaks.
PeerReset ==
    /\ \E id \in streams \cup raws :
          /\ sockets[id].open /\ ~sockets[id].broken
          /\ sockets' = [sockets EXCEPT ![id].broken = TRUE]
    /\ UNCHANGED <<engineEncodesFirst, torProxyCell, call, ncalls, io, streams, raws,
                   ret, log, lastOp, h>>

-----------------------------------------------------------------------------
(* The check binary (bin/check.rs) *)

NoAddr == SocketAddrV4_new(<<>>, 0)

HarnessOff ==
    [pc |-> "off", arg |-> "", env |-> "", address |-> NoAddr, check |-> "",
     exit |-> -1, out |-> <<>>, failed |-> {}]

\* What the first argument, or the TOR_PROXY environment variable, may hold
\* ("" when absent).
AddressInputs == {"", "127.0.0.1:9050", "127.0.0.1:9150", "tor"}

\* address.to_socket_addrs(): the first address the text stands for, NoAddr when
\* it cannot be parsed.
ToSocketAddrs(text) ==
    CASE text = "127.0.0.1:9050" -> SocketAddrV4_new(<<127, 0, 0, 1>>, 9050)
      [] text = "127.0.0.1:9150" -> SocketAddrV4_new(<<127, 0, 0, 1>>, 9150)
      [] OTHER -> NoAddr

\* args().nth(1).or_else(|| var("TOR_PROXY").ok())
ChosenText(arg, env) == IF arg # "" THEN arg ELSE env

\* The address main settles on when the text parses (or there is none).
ChosenAddress(arg, env) ==
    IF ChosenText(arg, env) # "" THEN ToSocketAddrs(ChosenText(arg, env))
    ELSE SocketAddrV4_new(Ipv4Addr_LOCALHOST, 9050)

\* The head of the response read_to_string collects, word by word.
Responses == {<<"HTTP/1.1", "200", "OK">>, <<"HTTP/1.1", "404", "Not Found">>, <<>>}

StartsWith(buf, prefix) ==
    Len(buf) >= Len(prefix) /\ SubSeq(buf, 1, Len(prefix)) = prefix

CheckDestination(check) ==
    IF check = "clear_web" THEN HostDest("www.example.com", 80)
    ELSE HostDest("wlupld3ptjvsgwqw.onion", 80)

CheckName(check) == IF check = "clear_web" THEN "Clear web" ELSE "Hidden service"

\* After check_clear_web comes check_hidden_service, after that exit(0).
AfterCheck(hh) ==
    IF hh.check = "clear_web" THEN [hh EXCEPT !.check = "hidden_service", !.pc = "call"]
    ELSE [hh EXCEPT !.pc = "finish"]

\* The outcome of a check whose response is buf.
CheckResponse(hh, buf) ==
    IF StartsWith(buf, <<"HTTP/1.1", "200", "OK">>)
    THEN AfterCheck([hh EXCEPT !.out = Append(@, <<"stdout", CheckName(hh.check), "check successful">>)])
    ELSE AfterCheck([hh EXCEPT !.out = Append(@, <<"stderr", CheckName(hh.check), "check failed">>),
                               !.failed = @ \cup {hh.check}])

\* main, up to the first check: the address is chosen and printed.
main ==
    /\ h.pc = "start"
    /\ LET address == ChosenAddress(h.arg, h.env)
       IN  IF address = NoAddr
           THEN h' = [h EXCEPT !.pc = "exited", !.exit = 1,
                         !.out = Append(@, <<"stderr", "Failed to parse socket address", "">>)]
           ELSE h' = [h EXCEPT !.pc = "call", !.check = "clear_web", !.address = address,
                         !.out = Append(@, <<"stdout", "Tor address", "">>)]
    /\ UNCHANGED <<engineEncodesFirst, torProxyCell, call, ncalls, sockets, io, streams,
                   raws, ret, log, lastOp>>

\* check_clear_web / check_hidden_service: TorStream::connect_with_address is called.
check_connect ==
    /\ h.pc = "call"
    /\ call.phase = "idle"
    /\ \E beh \in Behaviours :
          LET args == connect_with_address_args(h.address, CheckDestination(h.check))
          IN  call' = EngineCall("connect_with_address", args[1], args[2],
                                 CheckDestination(h.check), beh)
    /\ ncalls' = ncalls + 1
    /\ h' = [h EXCEPT !.pc = "connecting"]
    /\ UNCHANGED <<engineEncodesFirst, torProxyCell, sockets, io, streams, raws, ret,
                   log, lastOp>>

\* .unwrap_or_else(|e| { eprintln!(..); exit(1) }) on the returned result.
check_connected ==
    /\ h.pc = "connecting"
    /\ call.phase = "idle"
    /\ IF ret.ok
       THEN h' = [h EXCEPT !.pc = "exchange"]
       ELSE h' = [h EXCEPT !.pc = "exited", !.exit = 1, !.failed = @ \cup {h.check},
                     !.out = Append(@, IF ret.err.kind = "ConnectionRefused"
                                       THEN <<"stderr", "Connection refused, is Tor running?", "">>
                                       ELSE <<"stderr", "Failed to connect", ret.err.msg>>)]
    /\ UNCHANGED <<engineEncodesFirst, torProxyCell, call, ncalls, sockets, io, streams,
                   raws, ret, log, lastOp>>

\* write_all(request).expect(..), read_to_string(&mut buf).expect(..), the
\* test of the response, and the stream going out of scope.
check_exchange ==
    /\ h.pc = "exchange"
    /\ \/ \E what \in {"Failed to send request", "Failed to read response"} :
             h' = [h EXCEPT !.pc = "exited", !.exit = 101, !.failed = @ \cup {h.check},
                      !.out = Append(@, <<"stderr", "panicked", what>>)]
       \/ \E buf \in Responses : h' = CheckResponse(h, buf)
    /\ streams' = streams \ {ret.sock}
    /\ sockets' = [sockets EXCEPT ![ret.sock].open = FALSE]
    /\ UNCHANGED <<engineEncodesFirst, torProxyCell, call, ncalls, io, raws, ret, log,
                   lastOp>>

\* exit(0) at the end of main.
main_exit ==
    /\ h.pc = "finish"
    /\ h' = [h EXCEPT !.pc = "exited", !.exit = 0]
    /\ UNCHANGED <<engineEncodesFirst, torProxyCell, call, ncalls, sockets, io, streams,
                   raws, ret, log, lastOp>>

-----------------------------------------------------------------------------

Init ==
    /\ engineEncodesFirst \in BOOLEAN
    /\ torProxyCell = <<>>
    /\ call = IdleCall
    /\ ncalls = 0
    /\ sockets = <<>>
    /\ io = <<>>
    /\ streams = {}
    /\ raws = {}
    /\ ret = NoResult
    /\ log = <<>>
    /\ lastOp = NoOp
    /\ h = HarnessOff

Next ==
    \/ connect
    \/ connect_with_address
    \/ EngineToTargetAddr
    \/ EngineTcpConnect
    \/ EngineNegotiate
    \/ EngineRequest
    \/ EngineReply
    \/ Return

Spec == Init /\ [][Next]_vars

\* The stream facade is exercised on tunnels to one destination, through one
\* proxy, which accepts the CONNECT.
IoProxies == {SocketAddrV4_new(Ipv4Addr_LOCALHOST, 9150)}
IoDestinations == {HostDest("wlupld3ptjvsgwqw.onion", 80)}
IoBehaviours == {"ok"}

io_connect == Connect(MaxIoCalls, IoDestinations, IoBehaviours)

io_connect_with_address ==
    ConnectWithAddress(MaxIoCalls, IoProxies, IoDestinations, IoBehaviours)

NextIO ==
    \/ io_connect
    \/ io_connect_with_address
    \/ EngineToTargetAddr
    \/ EngineTcpConnect
    \/ EngineNegotiate
    \/ EngineRequest
    \/ EngineReply
    \/ Return
    \/ Read
    \/ Write
    \/ Flush
    \/ Unwrap
    \/ RawRead
    \/ RawWrite
    \/ PeerSend
    \/ PeerReset

SpecIO == Init /\ [][NextIO]_vars

HarnessInit ==
    /\ engineEncodesFirst \in BOOLEAN
    /\ torProxyCell = <<>>
    /\ call = IdleCall
    /\ ncalls = 0
    /\ sockets = <<>>
    /\ io = <<>>
    /\ streams = {}
    /\ raws = {}
    /\ ret = NoResult
    /\ log = <<>>
    /\ lastOp = NoOp
    /\ \E arg \in AddressInputs, env \in AddressInputs :
          h = [HarnessOff EXCEPT !.pc = "start", !.arg = arg, !.env = env]

HarnessNext ==
    \/ main
    \/ check_connect
    \/ EngineToTargetAddr
    \/ EngineTcpConnect
    \/ EngineNegotiate
    \/ EngineRequest
    \/ EngineReply
    \/ Return
    \/ check_connected
    \/ check_exchange
    \/ main_exit

HarnessSpec == HarnessInit /\ [][HarnessNext]_vars


-----------------------------------------------------------------------------
(* Properties *)

LogIdx == 1..Len(log)

Events(trace, kind) == {i \in 1..Len(trace) : trace[i][1] = kind}

Requests(trace) ==
    {i \in Events(trace, "send") : trace[i][2].msg = "connect"}

Greetings(trace) ==
    {i \in Events(trace, "send") : trace[i][2].msg = "greeting"}

SuccessReplies(trace) ==
    {i \in Events(trace, "recv") :
        trace[i][2].msg = "reply" /\ trace[i][2].ver = 5 /\ trace[i][2].rep = 0}

Loopback9050 == [ip |-> <<127, 0, 0, 1>>, port |-> 9050]

\* C1: a TorStream that exists wraps a socket whose handshake completed with
\* a success reply; a call returns Ok with such a stream or Err with none; the
\* socket of a handshake still in progress is never held by the caller.
C1_StreamMeansHandshakeDone ==
    /\ \A id \in streams \cup raws : sockets[id].hs = "established" /\ sockets[id].open
    /\ call.phase # "idle" => call.sock \notin streams \cup raws
    /\ \A i \in LogIdx :
          IF log[i].ret.ok
          THEN /\ log[i].ret.sock = log[i].sock
               /\ sockets[log[i].ret.sock].hs = "established"
               /\ SuccessReplies(log[i].trace) # {}
          ELSE /\ log[i].ret.sock = 0
               /\ log[i].ret.err # NoErr
               /\ log[i].sock \notin streams \cup raws

\* One call returned a stream; another failed after its socket had been opened.
C1_Witness ==
    /\ streams # {}
    /\ \E i \in LogIdx : ~log[i].ret.ok /\ log[i].sock # 0
    /\ \E i \in LogIdx : log[i].ret.ok

SameOutcome(a, b) ==
    /\ a.trace = b.trace
    /\ a.ret.ok = b.ret.ok
    /\ a.ret.err = b.ret.err
    /\ a.ret.ok => (a.ret.sock = a.sock /\ b.ret.sock = b.sock)

\* C2: TOR_PROXY is 127.0.0.1:9050 and never anything else, and connect(d)
\* does towards the proxy, and returns, what connect_with_address(127.0.0.1:9050, d)
\* does and returns for the same destination and the same proxy behaviour.
C2_ConnectIsConnectWithDefault ==
    /\ torProxyCell \in {<<>>, <<Loopback9050>>}
    /\ \A i \in LogIdx : log[i].api = "connect" => log[i].proxy = Loopback9050
    /\ \A i, j \in LogIdx :
          (/\ log[i].api = "connect"
           /\ log[j].api = "connect_with_address"
           /\ log[j].proxy = Loopback9050
           /\ log[j].dest = log[i].dest
           /\ log[j].beh = log[i].beh)
          => SameOutcome(log[i], log[j])

\* Both calls were made for the same destination against an accepting proxy.
C2_Witness ==
    \E i, j \in LogIdx :
       /\ log[i].api = "connect" /\ log[j].api = "connect_with_address"
       /\ log[j].proxy = Loopback9050
       /\ log[j].dest = log[i].dest /\ log[j].beh = log[i].beh
       /\ log[i].ret.ok /\ log[i].dest.kind = "host"

C5_ProtocolErrorUnchanged ==
    \A i \in LogIdx :
       log[i].beh \in {"fail_reply", "garbage_reply"} /\ Requests(log[i].trace) # {} =>
          /\ ~log[i].engine.ok
          /\ log[i].ret = log[i].engine
          /\ ~log[i].ret.ok
          /\ log[i].sock \notin streams \cup raws
          /\ ~sockets[log[i].sock].open

C5_Witness ==
    /\ \E i \in LogIdx :
          log[i].beh = "fail_reply" /\ log[i].api = "connect" /\ Requests(log[i].trace) # {}
    /\ \E i \in LogIdx :
          log[i].beh = "garbage_reply" /\ Requests(log[i].trace) # {}

IsRawOp(o) == o.via = "TcpStream"

RawOutcomes(o) ==
    CASE o.op = "read" -> TcpStream_read(o.before, o.n)
      [] o.op = "write" -> TcpStream_write(o.before, o.buf)
      [] o.op = "flush" -> TcpStream_flush(o.before)
      [] OTHER -> {}

WrapperOutcomes(o) ==
    CASE o.op = "read" -> TorStream_read(o.before, o.n)
      [] o.op = "write" -> TorStream_write(o.before, o.buf)
      [] o.op = "flush" -> TorStream_flush(o.before)
      [] OTHER -> {}

\* C6: a read, write or flush on a TorStream has an effect and a result the
\* same call on its socket has; what is on the wire is what the calls reported
\* as written, in order; what the reads delivered, with what is still waiting,
\* is what the peer sent after the handshake.
C6_StreamIsTransparent ==
    /\ (lastOp.via = "TorStream" /\ lastOp.op \in {"read", "write", "flush"}) =>
          Outcome(lastOp.after, lastOp.result) \in RawOutcomes(lastOp)
    /\ \A id \in streams :
          /\ sockets[id].out = io[id].accepted
          /\ io[id].delivered \o sockets[id].inbuf = io[id].peerSent
          /\ \A n \in ReadLens : TorStream_read(sockets[id], n) = TcpStream_read(sockets[id], n)
          /\ \A buf \in WriteBufs :
                TorStream_write(sockets[id], buf) = TcpStream_write(sockets[id], buf)

\* Bytes were written through the wrapper and a read through it delivered
\* bytes of the peer.
C6_Witness ==
    /\ lastOp.via = "TorStream" /\ lastOp.op = "read"
    /\ lastOp.result.ok /\ lastOp.result.data # <<>>
    /\ sockets[lastOp.sock].out # <<>>

\* C7: unwrap hands over the socket the TorStream held, open and as it was,
\* without I/O; calls made on it afterwards behave as they would have through
\* the wrapper, and the wire carries the writes before and after in order.
C7_UnwrapIsTransparent ==
    /\ lastOp.op = "unwrap" =>
          /\ lastOp.after = lastOp.before
          /\ lastOp.sock \in raws /\ lastOp.sock \notin streams
    /\ \A id \in raws :
          /\ sockets[id].open /\ sockets[id].hs = "established"
          /\ sockets[id].out = io[id].accepted
          /\ io[id].delivered \o sockets[id].inbuf = io[id].peerSent
    /\ (IsRawOp(lastOp) /\ lastOp.op \in {"read", "write"}) =>
          Outcome(lastOp.after, lastOp.result) \in WrapperOutcomes(lastOp)
    /\ streams \cap raws = {}

\* Bytes were written through the wrapper, the stream was unwrapped, and more
\* bytes were written on the bare socket.
C7_Witness ==
    /\ IsRawOp(lastOp) /\ lastOp.op = "write" /\ lastOp.result.ok
    /\ lastOp.before.out # <<>>
    /\ Len(io[lastOp.sock].accepted) = 2

CallsSeen == [i \in 1..(Len(log) + 1) |->
                 IF i <= Len(log) THEN [dest |-> log[i].dest, proxy |-> log[i].proxy,
                                        trace |-> log[i].trace]
                 ELSE [dest |-> call.dest, proxy |-> call.proxy, trace |-> call.trace]]

\* C8: a destination given by name is never resolved here: the CONNECT request
\* carries the name as given, as a domain name, with the port, and the only
\* endpoint a TCP connection is opened to is the proxy address of the call.
C8_HostGoesToProxyUnresolved ==
    /\ call.phase # "idle" => call.target = call.dest
    /\ \A i \in DOMAIN CallsSeen :
          LET c == CallsSeen[i]
          IN  /\ \A e \in Events(c.trace, "tcp_connect") : c.trace[e][2] = c.proxy
              /\ c.dest.kind = "host" =>
                    \A e \in Requests(c.trace) :
                       /\ c.trace[e][2].atyp = 3
                       /\ c.trace[e][2].host = c.dest.host
                       /\ c.trace[e][2].len = Len(c.dest.host)
                       /\ c.trace[e][2].port = c.dest.port
    /\ \A id \in DOMAIN sockets : sockets[id].peer \in ProxyAddrs

C8_Witness ==
    \E i \in LogIdx :
       /\ log[i].dest = HostDest("wlupld3ptjvsgwqw.onion", 80)
       /\ log[i].api = "connect_with_address"
       /\ Requests(log[i].trace) # {}
       /\ log[i].ret.ok

\* C9: a call opens at most one TCP connection and runs at most one handshake
\* on it; a failure is returned as it is, with no second attempt; every
\* TorStream produced wraps the one socket its own call opened, and no two
\* share one.
C9_OneAttemptOneSocket ==
    /\ \A i \in LogIdx :
          /\ Cardinality(Events(log[i].trace, "tcp_connect")) <= 1
          /\ Cardinality(Greetings(log[i].trace)) <= 1
          /\ Cardinality(Requests(log[i].trace)) <= 1
          /\ ~log[i].engine.ok => (~log[i].ret.ok /\ log[i].ret.err = log[i].engine.err)
          /\ log[i].ret.ok => log[i].ret.sock = log[i].sock
    /\ \A i, j \in LogIdx :
          (i # j /\ log[i].ret.ok /\ log[j].ret.ok) => log[i].ret.sock # log[j].ret.sock
    /\ Len(sockets) <= ncalls
    /\ Len(log) + (IF call.phase = "idle" THEN 0 ELSE 1) = ncalls
    /\ Cardinality(streams) = Cardinality({i \in LogIdx : log[i].ret.ok})

\* Two calls succeeded.
C9_Witness ==
    /\ Cardinality(streams) >= 2
    /\ \E i, j \in LogIdx : i # j /\ log[i].ret.ok /\ log[j].ret.ok

\* C10: the check binary uses the first argument, else TOR_PROXY from the
\* environment, else 127.0.0.1:9050; whenever a check fails (connect error, or
\* a response that does not start with "HTTP/1.1 200 OK") a diagnostic is
\* printed and the process exits with a non-zero code.
C10_FailedCheckExitsNonZero ==
    /\ h.pc \notin {"off", "start"} /\ h.address # NoAddr =>
          h.address = (IF h.arg # "" THEN ToSocketAddrs(h.arg)
                       ELSE IF h.env # "" THEN ToSocketAddrs(h.env)
                       ELSE Loopback9050)
    /\ (h.pc = "exited" /\ h.failed # {}) =>
          /\ h.exit # 0
          /\ \E i \in 1..Len(h.out) : h.out[i][1] = "stderr"

=============================================================================
